---- MODULE Spec2Model ----
(***************************************************************************)
(* sprite_tools as a state machine: the frame compositing engine of        *)
(* animator.py (class Frame), the playback cursor of class FrameElement    *)
(* and the methods of extractor.py (class Extractor).                      *)
(* A raster image is a record [rows, cols, pix], pix a function on         *)
(* (0..rows-1) \X (0..cols-1), a pixel a tuple <<B, G, R>> or              *)
(* <<B, G, R, A>> of 8-bit channels.                                       *)
(* The instruction dictionaries of Frame are Python objects that are       *)
(* shared by reference, so they live in a heap and frameList and instr     *)
(* hold references (indices) into it.                                      *)
(* Transparency values (alpha) are given in quarters: 4 is alpha = 1.0,    *)
(* 2 is alpha = 0.5; rotations are whole multiples of 90 degrees.          *)
(***************************************************************************)
EXTENDS Integers, Sequences, FiniteSets, TLC

VARIABLES
    alphaChannel,   \* Frame.alphaChannel
    frameList,      \* Frame.frameList: references to instruction dictionaries
    instr,          \* Frame.instr: reference to the pending dictionary
    heap,           \* the instruction dictionaries, by reference
    pc,             \* position inside render ("idle" outside of it)
    frameIndex,     \* render: frameIndex
    frameCount,     \* render: frameCount
    curFrame,       \* render: curFrame (a reference)
    frameElement,   \* render: frameElement (list of sprites)
    frame,          \* render: frame (the canvas)
    layerI,         \* render: i of the layering loop
    outDir,         \* the output directory: file name -> image
    written,        \* names written by the current render call, in order
    calls,          \* number of public calls made so far
    lastCall,       \* the last public call: [op, arg]
    repeatSum,      \* the sum of the repeatFrames arguments of the save calls
    err,            \* the exception the last call raised ("" if none)
    sprites,        \* the image sequence the caller of the Extractor holds
    params,         \* the method the caller calls with it and the other arguments
    curSpriteIndex, \* FrameElement.curSpriteIndex
    played,         \* the setCurSprite calls so far: <<eventName, startIndex, returned>>
    result,         \* the value the last Extractor call returned
    printed,        \* the lines the Extractor calls printed
    disk            \* the folders the Extractor wrote: folder -> (file name -> image)

vars == <<alphaChannel, frameList, instr, heap, pc, frameIndex, frameCount,
          curFrame, frameElement, frame, layerI, outDir, written, calls,
          lastCall, repeatSum, err, sprites, params, curSpriteIndex, played, result,
          printed, disk>>

elementVars == <<curSpriteIndex, played>>
extractorVars == <<sprites, params, result, printed, disk>>
otherVars == <<elementVars, extractorVars>>

frameVars == <<alphaChannel, frameList, instr, heap, repeatSum>>
renderVars == <<pc, frameIndex, frameCount, curFrame, frameElement, frame,
                layerI, written>>

\* ---------------------------------------------------------------- bounds
MaxCalls == 5       \* public calls (setAlpha, add, save, render) of one run

\* ---------------------------------------------------------------- images
Coords(h, w) == (0 .. h - 1) \X (0 .. w - 1)

Image(h, w, f) == [rows |-> h, cols |-> w, pix |-> f]

NoImage == Image(0, 0, <<>>)

\* The sprite images held by the FrameElement event dictionaries.
\* imgA: 2 x 2, four different pixels, one of them the default key (0,0,0),
\*       one the grey (60,60,60).
\* imgB: 1 x 2, not square.
\* imgC: 1 x 1.
imgA == Image(2, 2, (<<0, 0>> :> <<10, 20, 30>>) @@ (<<0, 1>> :> <<60, 60, 60>>)
                 @@ (<<1, 0>> :> <<0, 0, 0>>) @@ (<<1, 1>> :> <<0, 0, 255>>))
imgB == Image(1, 2, (<<0, 0>> :> <<0, 200, 0>>) @@ (<<0, 1>> :> <<255, 0, 0>>))
imgC == Image(1, 1, (<<0, 0>> :> <<100, 100, 100>>))

eventDict == <<imgA, imgB, imgC>>

\* ------------------------------------------------------------ _flipSprite
fliplr(sprite) ==
    Image(sprite.rows, sprite.cols,
          [p \in Coords(sprite.rows, sprite.cols) |->
              sprite.pix[<<p[1], sprite.cols - 1 - p[2]>>]])

flipud(sprite) ==
    Image(sprite.rows, sprite.cols,
          [p \in Coords(sprite.rows, sprite.cols) |->
              sprite.pix[<<sprite.rows - 1 - p[1], p[2]>>]])

flipSprite(sprite, flipTuple) ==
    LET spriteFlipped0 == sprite
        spriteFlipped1 == IF flipTuple[1] THEN fliplr(sprite) ELSE spriteFlipped0
        spriteFlipped2 == IF flipTuple[2] THEN flipud(sprite) ELSE spriteFlipped1
    IN  spriteFlipped2

\* ----------------------------------------------------------- _scaleSprite
\* np.kron(channel, ones((s, s))): every pixel becomes an s x s block.
scaleSprite(sprite, scaleFactor) ==
    Image(sprite.rows * scaleFactor, sprite.cols * scaleFactor,
          [p \in Coords(sprite.rows * scaleFactor, sprite.cols * scaleFactor) |->
              sprite.pix[<<p[1] \div scaleFactor, p[2] \div scaleFactor>>]])

\* ---------------------------------------------------------- _rotateSprite
\* cos and sin of a whole multiple of 90 degrees.
Cos(deg) == CASE deg % 360 = 0 -> 1 [] deg % 360 = 180 -> -1 [] OTHER -> 0
Sin(deg) == CASE deg % 360 = 90 -> 1 [] deg % 360 = 270 -> -1 [] OTHER -> 0
Abs(x) == IF x < 0 THEN -x ELSE x

\* cv2.getRotationMatrix2D((cx, cy), deg, 1) as <<row 1, row 2>>.
getRotationMatrix2D(cx, cy, deg) ==
    LET a == Cos(deg)
        b == Sin(deg)
    IN  << <<a, b, (1 - a) * cx - b * cy>>,
           <<-b, a, b * cx + (1 - a) * cy>> >>

\* cv2.warpAffine(src, M, (w, h)): destination pixel (x', y') takes the source
\* pixel (x, y) with M (x, y) = (x', y'); where there is none it is 0.
warpAffine(sprite, M, w, h) ==
    Image(h, w,
          [p \in Coords(h, w) |->
              LET src == {q \in Coords(sprite.rows, sprite.cols) :
                             /\ M[1][1] * q[2] + M[1][2] * q[1] + M[1][3] = p[2]
                             /\ M[2][1] * q[2] + M[2][2] * q[1] + M[2][3] = p[1]}
              IN  IF src = {} THEN <<0, 0, 0>>
                  ELSE sprite.pix[CHOOSE q \in src : TRUE]])

\* Returns <<spriteRotated, newPos>>.
rotateSprite(sprite, rotation, position) ==
    LET rowCount == sprite.rows
        columnCount == sprite.cols
        cXR == columnCount \div 2
        cYR == rowCount \div 2
        cXA == position[1] + cXR
        cYA == position[2] + cYR
        rotationMatrix == getRotationMatrix2D(cXR, cYR, rotation)
        cos == Abs(rotationMatrix[1][1])
        sin == Abs(rotationMatrix[1][2])
        newWidth == rowCount * sin + columnCount * cos
        newHeight == rowCount * cos + columnCount * sin
        newPos == <<cXA - (newWidth \div 2), cYA - (newHeight \div 2)>>
        M == << <<rotationMatrix[1][1], rotationMatrix[1][2],
                  rotationMatrix[1][3] + (newWidth \div 2) - cXR>>,
                <<rotationMatrix[2][1], rotationMatrix[2][2],
                  rotationMatrix[2][3] + (newHeight \div 2) - cYR>> >>
    IN  <<warpAffine(sprite, M, newWidth, newHeight), newPos>>

\* ----------------------------------------------------------- _alphaSprite
\* int(round(255 * alpha)) for alpha = a4 / 4, rounding halves away from zero,
\* stored into a uint8 array.
roundAlpha(a4) ==
    LET r == IF a4 >= 0 THEN (255 * a4 * 2 + 4) \div 8
                        ELSE -((255 * (-a4) * 2 + 4) \div 8)
    IN  r % 256

alphaSprite(sprite, alpha, key) ==
    Image(sprite.rows, sprite.cols,
          [p \in Coords(sprite.rows, sprite.cols) |->
              LET px == sprite.pix[p]
                  blackPixel == px[1] = key /\ px[2] = key /\ px[3] = key
              IN  <<px[1], px[2], px[3],
                    IF blackPixel THEN 0 ELSE roundAlpha(alpha)>>])

\* ----------------------------------------------------------- _layerSprite
\* Outcomes of casting a NaN colour (0.0 / 0.0) to uint8.
NanCast == {0, 255}

\* The colour arithmetic is done in IEEE doubles and truncated to uint8.  For
\* a destination alpha of 255 and the source alphas 0, 64, 128, 191 and 255
\* the doubles give the floor of the exact quotient for every pair of colours;
\* for source alpha 254 they fall short of it by one in the case listed here.
FloatShortfall == {<<254, 0, 255, 255>>}

\* The colour with the weights of source and canvas exchanged.
newColorSwapped(as, cs, ad, cd, nan) ==
    LET den == 255 * 255 - (255 - as) * (255 - ad)
        num == 255 * as * cd + ad * cs * (255 - as)
    IN  IF den = 0 THEN nan ELSE num \div den

\* One colour channel of the composite: as is the source alpha, cs the source
\* colour, ad the canvas alpha, cd the canvas colour.
newColor(as, cs, ad, cd, nan) ==
    LET den == 255 * 255 - (255 - as) * (255 - ad)
        num == 255 * as * cs + ad * cd * (255 - as)
    IN  IF den = 0 THEN nan
        ELSE (num \div den) - (IF <<as, cs, ad, cd>> \in FloatShortfall THEN 1 ELSE 0)

\* The alpha of the source alone taken as the composite alpha.
newAlphaOfSource(as, ad) == as

\* The composite alpha: (1 - (1 - as/255)(1 - ad/255)) * 255, truncated.
newAlpha(as, ad) ==
    ((255 * 255 - (255 - as) * (255 - ad)) * 255) \div (255 * 255)

compPixel(sp, fp, nan) ==
    <<newColor(sp[4], sp[1], fp[4], fp[1], nan),
      newColor(sp[4], sp[2], fp[4], fp[2], nan),
      newColor(sp[4], sp[3], fp[4], fp[3], nan),
      newAlpha(sp[4], fp[4])>>

\* The crop rectangles of lines 267-287:
\* [cropY1, cropY2, cropX1, cropX2] on the frame and
\* [cropSpriteY1, cropSpriteY2, cropSpriteX1, cropSpriteX2] on the sprite.
cropRect(sprite, frm, position) ==
    LET rowCount == sprite.rows
        columnCount == sprite.cols
        y1 == position[2]
        y2 == position[2] + rowCount
        x1 == position[1]
        x2 == position[1] + columnCount
    IN  [cropY1 |-> IF y1 < 0 THEN 0 ELSE y1,
         cropX1 |-> IF x1 < 0 THEN 0 ELSE x1,
         cropY2 |-> IF y2 > frm.rows THEN frm.rows ELSE y2,
         cropX2 |-> IF x2 > frm.cols THEN frm.cols ELSE x2,
         cropSpriteY1 |-> IF y1 < 0 THEN -y1 ELSE 0,
         cropSpriteX1 |-> IF x1 < 0 THEN -x1 ELSE 0,
         cropSpriteY2 |-> IF y2 > frm.rows THEN rowCount - (y2 - frm.rows)
                                            ELSE rowCount,
         cropSpriteX2 |-> IF x2 > frm.cols THEN columnCount - (x2 - frm.cols)
                                            ELSE columnCount]

\* Returns [err, frame]: np.ones((cropHeight, cropWidth)) raises ValueError
\* for a negative dimension, before the frame is touched.
layerSprite(sprite, frm, position, nan) ==
    LET c == cropRect(sprite, frm, position)
        cropHeight == c.cropSpriteY2 - c.cropSpriteY1
        cropWidth == c.cropSpriteX2 - c.cropSpriteX1
    IN  IF cropHeight < 0 \/ cropWidth < 0
        THEN [err |-> "ValueError", frame |-> frm]
        ELSE [err |-> "",
              frame |->
                Image(frm.rows, frm.cols,
                  [p \in Coords(frm.rows, frm.cols) |->
                     IF /\ c.cropY1 <= p[1] /\ p[1] < c.cropY2
                        /\ c.cropX1 <= p[2] /\ p[2] < c.cropX2
                     THEN compPixel(
                            sprite.pix[<<c.cropSpriteY1 + (p[1] - c.cropY1),
                                         c.cropSpriteX1 + (p[2] - c.cropX1)>>],
                            frm.pix[p], nan)
                     ELSE frm.pix[p]])]

\* ------------------------------------------------------- output file names
RECURSIVE Digits(_)
Digits(n) == IF n < 10 THEN <<n>> ELSE Append(Digits(n \div 10), n % 10)

\* '%.*d' % (width, n): the decimal digits of n, zero-padded to width.
RECURSIVE PadDigits(_, _)
PadDigits(width, ds) ==
    IF Len(ds) >= width THEN ds ELSE PadDigits(width, <<0>> \o ds)

\* The name padded to the digits of the last index instead of the count.
fileNameLastIndex(count, index) ==
    PadDigits(Len(Digits(count - 1)), Digits(index))

fileName(count, index) == PadDigits(Len(Digits(count)), Digits(index))

\* frame[:, :, 0:3]
dropAlpha(frm) ==
    Image(frm.rows, frm.cols,
          [p \in Coords(frm.rows, frm.cols) |->
              <<frm.pix[p][1], frm.pix[p][2], frm.pix[p][3]>>])

\* The canvas with the two dimensions of the shape exchanged.
whiteFrameTransposed(shape) ==
    Image(shape.cols, shape.rows,
          [p \in Coords(shape.cols, shape.rows) |-> <<255, 255, 255, 255>>])

\* np.ones(shape, dtype = np.uint8) * 255
whiteFrame(shape) ==
    Image(shape.rows, shape.cols,
          [p \in Coords(shape.rows, shape.cols) |-> <<255, 255, 255, 255>>])

\* ------------------------------------------------------------------ state
emptyInstr == [image |-> <<>>, position |-> <<>>, alpha |-> <<>>,
               rotation |-> <<>>, scale |-> <<>>, flip |-> <<>>]

\* The state after Frame(), FrameElement() and Extractor(), the caller of the
\* Extractor holding the image sequence and the arguments of one of the jobs.
NoJob == [sprites |-> <<>>, params |-> [op |-> "none"]]

InitWith(jobs) ==
    /\ alphaChannel = 0
    /\ frameList = <<>>
    /\ heap = <<emptyInstr>>
    /\ instr = 1
    /\ pc = "idle"
    /\ frameIndex = 0
    /\ frameCount = 0
    /\ curFrame = 0
    /\ frameElement = <<>>
    /\ frame = NoImage
    /\ layerI = 0
    /\ outDir = <<>>
    /\ written = <<>>
    /\ calls = 0
    /\ lastCall = [op |-> "init", arg |-> 0]
    /\ repeatSum = 0
    /\ err = ""
    /\ curSpriteIndex = -1
    /\ played = <<>>
    /\ result = "None"
    /\ printed = <<>>
    /\ disk = <<>>
    /\ \E job \in jobs : sprites = job.sprites /\ params = job.params

Init == InitWith({NoJob})

\* ---------------------------------------------------------------- setAlpha
\* setAlpha is declared without self: a call frame.setAlpha(channel) passes
\* two arguments to a function of one and raises TypeError before its body.
setAlpha(channel) ==
    /\ pc = "idle"
    /\ calls < MaxCalls
    /\ calls' = calls + 1
    /\ lastCall' = [op |-> "setAlpha", arg |-> channel]
    /\ err' = "TypeError"
    /\ UNCHANGED <<frameVars, renderVars, outDir>>
    /\ UNCHANGED otherVars

\* --------------------------------------------------------------------- add
add(a) ==
    /\ pc = "idle"
    /\ calls < MaxCalls
    /\ calls' = calls + 1
    /\ heap' = [heap EXCEPT ![instr] =
                  [image |-> Append(@.image, a.image),
                   position |-> Append(@.position, a.position),
                   alpha |-> Append(@.alpha, a.alpha),
                   rotation |-> Append(@.rotation, a.rotation),
                   scale |-> Append(@.scale, a.scale),
                   flip |-> Append(@.flip, a.flip)]]
    /\ lastCall' = [op |-> "add", arg |-> a]
    /\ err' = ""
    /\ UNCHANGED <<alphaChannel, frameList, instr, repeatSum, renderVars, outDir>>
    /\ UNCHANGED otherVars

\* -------------------------------------------------------------------- save
\* save as it would be with the pending dictionary emptied in place instead
\* of being replaced by a new one.
saveClearsInPlace(repeatFrames) ==
    /\ pc = "idle"
    /\ calls < MaxCalls
    /\ calls' = calls + 1
    /\ frameList' = frameList \o [curFrm \in 1 .. repeatFrames |-> instr]
    /\ heap' = [heap EXCEPT ![instr] = emptyInstr]
    /\ instr' = instr
    /\ lastCall' = [op |-> "save", arg |-> repeatFrames]
    /\ repeatSum' = repeatSum + repeatFrames
    /\ err' = ""
    /\ UNCHANGED <<alphaChannel, renderVars, outDir>>
    /\ UNCHANGED otherVars

save(repeatFrames) ==
    /\ pc = "idle"
    /\ calls < MaxCalls
    /\ calls' = calls + 1
    /\ frameList' = frameList \o [curFrm \in 1 .. repeatFrames |-> instr]
    /\ heap' = Append(heap, emptyInstr)
    /\ instr' = Len(heap) + 1
    /\ lastCall' = [op |-> "save", arg |-> repeatFrames]
    /\ repeatSum' = repeatSum + repeatFrames
    /\ err' = ""
    /\ UNCHANGED <<alphaChannel, renderVars, outDir>>
    /\ UNCHANGED otherVars

\* ------------------------------------------------------------------ render
\* The call: lines 191-192.
render ==
    /\ pc = "idle"
    /\ calls < MaxCalls
    /\ calls' = calls + 1
    /\ frameIndex' = 0
    /\ frameCount' = Len(frameList)
    /\ written' = <<>>
    /\ pc' = "for"
    /\ lastCall' = [op |-> "render", arg |-> 0]
    /\ err' = ""
    /\ UNCHANGED <<frameVars, curFrame, frameElement, frame, layerI, outDir>>
    /\ UNCHANGED otherVars

\* for curFrame in self.frameList, and lines 194-195; the return when the
\* list is exhausted.
forFrame ==
    /\ pc = "for"
    /\ IF frameIndex < Len(frameList)
       THEN /\ curFrame' = frameList[frameIndex + 1]
            /\ frameElement' =
                 [x \in 1 .. Len(heap[curFrame'].image) |->
                     eventDict[heap[curFrame'].image[x]]]
            /\ pc' = "flip"
       ELSE /\ pc' = "idle"
            /\ UNCHANGED <<curFrame, frameElement>>
    /\ UNCHANGED <<frameVars, frameIndex, frameCount, frame, layerI, outDir,
                   written, calls, lastCall, err>>
    /\ UNCHANGED otherVars

\* line 196
flipStep ==
    /\ pc = "flip"
    /\ frameElement' = [x \in 1 .. Len(frameElement) |->
                           flipSprite(frameElement[x], heap[curFrame].flip[x])]
    /\ pc' = "scale"
    /\ UNCHANGED <<frameVars, frameIndex, frameCount, curFrame, frame, layerI,
                   outDir, written, calls, lastCall, err>>
    /\ UNCHANGED otherVars

\* line 197; np.ones((scaleFactor, scaleFactor)) of a negative scaleFactor
\* raises ValueError (line 222).
scaleStep ==
    /\ pc = "scale"
    /\ IF \E x \in 1 .. Len(frameElement) : heap[curFrame].scale[x] < 0
       THEN /\ err' = "ValueError"
            /\ pc' = "idle"
            /\ UNCHANGED frameElement
       ELSE /\ frameElement' =
                 [x \in 1 .. Len(frameElement) |->
                     scaleSprite(frameElement[x], heap[curFrame].scale[x])]
            /\ pc' = "rotate"
            /\ err' = err
    /\ UNCHANGED <<frameVars, frameIndex, frameCount, curFrame, frame, layerI,
                   outDir, written, calls, lastCall>>
    /\ UNCHANGED otherVars

\* lines 198-200: the new positions are stored back into the dictionary.
rotateStep ==
    /\ pc = "rotate"
    /\ LET unPack == [x \in 1 .. Len(frameElement) |->
                         rotateSprite(frameElement[x], heap[curFrame].rotation[x],
                                      heap[curFrame].position[x])]
       IN  /\ frameElement' = [x \in 1 .. Len(unPack) |-> unPack[x][1]]
           /\ heap' = [heap EXCEPT ![curFrame].position =
                          [x \in 1 .. Len(unPack) |-> unPack[x][2]]]
    /\ pc' = "alpha"
    /\ UNCHANGED <<alphaChannel, frameList, instr, repeatSum, frameIndex, frameCount,
                   curFrame, frame, layerI, outDir, written, calls, lastCall,
                   err>>
    /\ UNCHANGED otherVars

\* line 201
alphaStep ==
    /\ pc = "alpha"
    /\ frameElement' = [x \in 1 .. Len(frameElement) |->
                           alphaSprite(frameElement[x], heap[curFrame].alpha[x],
                                       alphaChannel)]
    /\ pc' = "canvas"
    /\ UNCHANGED <<frameVars, frameIndex, frameCount, curFrame, frame, layerI,
                   outDir, written, calls, lastCall, err>>
    /\ UNCHANGED otherVars

\* The step as it would be if a frame without instructions were passed over.
canvasStepSkipsEmpty ==
    /\ pc = "canvas"
    /\ IF Len(frameElement) = 0
       THEN /\ pc' = "for"
            /\ frameIndex' = frameIndex + 1
            /\ UNCHANGED <<frame, layerI>>
       ELSE /\ frame' = whiteFrame(frameElement[1])
            /\ layerI' = 0
            /\ pc' = "layer"
            /\ frameIndex' = frameIndex
    /\ UNCHANGED <<frameVars, frameCount, curFrame, frameElement, outDir,
                   written, calls, lastCall, err>>
    /\ UNCHANGED otherVars

\* line 202: frameElement[0] of an empty list raises IndexError.
canvasStep ==
    /\ pc = "canvas"
    /\ IF Len(frameElement) = 0
       THEN /\ err' = "IndexError"
            /\ pc' = "idle"
            /\ UNCHANGED <<frame, layerI>>
       ELSE /\ frame' = whiteFrame(frameElement[1])
            /\ layerI' = 0
            /\ pc' = "layer"
            /\ err' = err
    /\ UNCHANGED <<frameVars, frameIndex, frameCount, curFrame, frameElement,
                   outDir, written, calls, lastCall>>
    /\ UNCHANGED otherVars

\* The layering step as it would be if a failing frame were written out as
\* far as it got.
layerStepWritesPartial ==
    /\ pc = "layer"
    /\ IF layerI < Len(frameElement)
       THEN \E nan \in NanCast :
              LET r == layerSprite(frameElement[layerI + 1], frame,
                                   heap[curFrame].position[layerI + 1], nan)
              IN  IF r.err # ""
                  THEN /\ err' = r.err
                       /\ pc' = "idle"
                       /\ outDir' = [n \in DOMAIN outDir
                                          \cup {fileName(frameCount, frameIndex)} |->
                                        IF n = fileName(frameCount, frameIndex)
                                        THEN dropAlpha(frame) ELSE outDir[n]]
                       /\ written' = Append(written,
                                            fileName(frameCount, frameIndex))
                       /\ UNCHANGED <<frame, layerI>>
                  ELSE /\ frame' = r.frame
                       /\ layerI' = layerI + 1
                       /\ UNCHANGED <<pc, err, outDir, written>>
       ELSE /\ pc' = "write"
            /\ UNCHANGED <<frame, layerI, err, outDir, written>>
    /\ UNCHANGED <<frameVars, frameIndex, frameCount, curFrame, frameElement,
                   calls, lastCall>>
    /\ UNCHANGED otherVars

\* lines 203-204: one pass of the layering loop, or its end.
layerStep ==
    /\ pc = "layer"
    /\ IF layerI < Len(frameElement)
       THEN \E nan \in NanCast :
              LET r == layerSprite(frameElement[layerI + 1], frame,
                                   heap[curFrame].position[layerI + 1], nan)
              IN  IF r.err # ""
                  THEN /\ err' = r.err
                       /\ pc' = "idle"
                       /\ UNCHANGED <<frame, layerI>>
                  ELSE /\ frame' = r.frame
                       /\ layerI' = layerI + 1
                       /\ UNCHANGED <<pc, err>>
       ELSE /\ pc' = "write"
            /\ UNCHANGED <<frame, layerI, err>>
    /\ UNCHANGED <<frameVars, frameIndex, frameCount, curFrame, frameElement,
                   outDir, written, calls, lastCall>>
    /\ UNCHANGED otherVars

\* lines 206-208
writeStep ==
    /\ pc = "write"
    /\ LET newFileName == fileName(frameCount, frameIndex)
       IN  /\ outDir' = [n \in DOMAIN outDir \cup {newFileName} |->
                            IF n = newFileName THEN dropAlpha(frame) ELSE outDir[n]]
           /\ written' = Append(written, newFileName)
    /\ frameIndex' = frameIndex + 1
    /\ pc' = "for"
    /\ UNCHANGED <<frameVars, frameCount, curFrame, frameElement, frame, layerI,
                   calls, lastCall, err>>
    /\ UNCHANGED otherVars

renderStep ==
    \/ forFrame
    \/ flipStep
    \/ scaleStep
    \/ rotateStep
    \/ alphaStep
    \/ canvasStep
    \/ layerStep
    \/ writeStep

\* ------------------------------------------------------------------ inputs
Instr(img, pos, a, rot, sc, fl) ==
    [image |-> img, position |-> pos, alpha |-> a, rotation |-> rot,
     scale |-> sc, flip |-> fl]

NoFlip == <<FALSE, FALSE>>

\* The draw instructions of the base specification: a 2 x 2 background, the
\* same mirrored on both axes, a 1 x 2 sprite turned by 90 degrees, a half
\* transparent 1 x 1 sprite and an opaque 1 x 2 sprite over the bottom row.
Menu == {Instr(1, <<0, 0>>, 4, 0, 1, NoFlip),
         Instr(1, <<0, 0>>, 4, 0, 1, <<TRUE, TRUE>>),
         Instr(2, <<0, 0>>, 4, 90, 1, NoFlip),
         Instr(3, <<1, 1>>, 2, 0, 1, NoFlip),
         Instr(2, <<0, 1>>, 4, 0, 1, NoFlip)}

Repeats == {1, 2}

Channels == {0, 60}

\* One step of a run whose caller draws layer n of a frame from menus[n] (the
\* layers above the last menu from the last menu) and the repeat counts from
\* repeats.
Layer(menus, n) == menus[IF n < Len(menus) THEN n ELSE Len(menus)]

NextWith(menus, repeats) ==
    \/ \E a \in Layer(menus, Len(heap[instr].image) + 1) : add(a)
    \/ \E repeatFrames \in repeats : save(repeatFrames)
    \/ render
    \/ renderStep

Next ==
    \/ \E channel \in Channels : setAlpha(channel)
    \/ NextWith(<<Menu>>, Repeats)

Spec == Init /\ [][Next]_vars

\* Long animations: one 1 x 1 background sprite per frame, poses held for up to
\* a hundred frames.
LongMenu == {Instr(3, <<0, 0>>, 4, 0, 1, NoFlip)}

LongRepeats == {1, 10, 100}

NextLong == NextWith(<<LongMenu>>, LongRepeats)

SpecLong == Init /\ [][NextLong]_vars

\* Layering: a 2 x 2 or a 1 x 2 bottom layer; above it the 1 x 1 sprite and
\* the 2 x 2 sprite at scale 2 (4 x 4) at every position of the row, the
\* column and the diagonal through the canvas origin, from 5 before it to 3
\* after it, the 1 x 2 sprite along the diagonal, and two sprites at the
\* origin and beside it with the transparencies 0, 1/4, 1/2 and 3/4; above
\* these a half transparent 1 x 1 or an opaque 1 x 2 sprite.
Offsets == -5 .. 3

Positions == {<<d, 0>> : d \in Offsets} \cup {<<0, d>> : d \in Offsets}
                \cup {<<d, d>> : d \in Offsets}

LayerBottom == {Instr(1, <<0, 0>>, 4, 0, 1, NoFlip),
                Instr(2, <<0, 0>>, 4, 0, 1, NoFlip)}

LayerUpper ==
    {Instr(3, pos, 4, 0, 1, NoFlip) : pos \in Positions}
    \cup {Instr(1, pos, 4, 0, 2, NoFlip) : pos \in Positions}
    \cup {Instr(2, <<d, d>>, 4, 0, 1, NoFlip) : d \in Offsets}
    \cup {Instr(img, pos, a, 0, 1, NoFlip) :
             img \in {1, 3}, pos \in {<<0, 0>>, <<1, 0>>}, a \in 0 .. 3}

LayerTop == {Instr(3, <<0, 0>>, 2, 0, 1, NoFlip),
             Instr(2, <<0, 0>>, 4, 0, 1, NoFlip)}

NextLayer == NextWith(<<LayerBottom, LayerUpper, LayerTop>>, {1})

SpecLayer == Init /\ [][NextLayer]_vars

\* Arguments outside of the documented ranges: the 2 x 2 background, and the
\* 1 x 1 sprite with alpha 2.0, with alpha -1.0 and with scale -1.
ArgMenu == {Instr(1, <<0, 0>>, 4, 0, 1, NoFlip),
            Instr(3, <<0, 0>>, 8, 0, 1, NoFlip),
            Instr(3, <<1, 1>>, -4, 0, 1, NoFlip),
            Instr(3, <<0, 0>>, 4, 0, -1, NoFlip)}

NextArgs == NextWith(<<ArgMenu>>, {1})

SpecArgs == Init /\ [][NextArgs]_vars

\* --------------------------------------------------------------- Extractor
\* extractor.py, class Extractor: the methods take the image sequence the
\* caller holds (the list getSprite returned) and return a new one.

\* A numpy array whose elements are computed when it is made.
ndarray(h, w, f) == Image(h, w, f @@ <<>>)

\* A uint8 array plus a Python integer is a uint8 array: the sum wraps.
uint8(x) == x % 256

\* ---------------------------------------------------- isolateSprite: mask
\* lines 105-106
upperLimit(background, limit) == [c \in 1 .. 3 |-> uint8(background[c] + limit)]

lowerLimit(background, limit) == [c \in 1 .. 3 |-> uint8(background[c] - limit)]

\* lines 109-111: n, TRUE where some channel is outside of the limits.
foreground(curSprite, background, limit) ==
    ndarray(curSprite.rows, curSprite.cols,
          [p \in Coords(curSprite.rows, curSprite.cols) |->
              \E c \in 1 .. 3 :
                  ~(/\ curSprite.pix[p][c] <= upperLimit(background, limit)[c]
                    /\ curSprite.pix[p][c] >= lowerLimit(background, limit)[c])])

\* The 5 x 5 kernel of lines 122-125, anchored at its centre.
inKernel(p, q) == Abs(p[1] - q[1]) <= 2 /\ Abs(p[2] - q[2]) <= 2

\* cv2.dilate and cv2.erode of a two valued image; pixels beyond the border
\* do not count.
dilate(n) ==
    ndarray(n.rows, n.cols,
          [p \in Coords(n.rows, n.cols) |->
              \E q \in Coords(n.rows, n.cols) : inKernel(p, q) /\ n.pix[q]])

erode(n) ==
    ndarray(n.rows, n.cols,
          [p \in Coords(n.rows, n.cols) |->
              \A q \in Coords(n.rows, n.cols) : inKernel(p, q) => n.pix[q]])

\* lines 123-125
denoise(n) == dilate(erode(dilate(n)))

\* ------------------------------------------------- isolateSprite: regions
adjacent(p, q) == Abs(p[1] - q[1]) + Abs(p[2] - q[2]) = 1

RECURSIVE grow(_, _, _)
grow(region, frontier, pixels) ==
    LET more == {q \in pixels \ region : \E p \in frontier : adjacent(p, q)}
    IN  IF more = {} THEN region ELSE grow(region \cup more, more, pixels)

\* The position of a pixel in row-major order.
rasterIndex(p, cols) == p[1] * cols + p[2]

firstPixel(region, cols) ==
    CHOOSE p \in region :
        \A q \in region : rasterIndex(p, cols) <= rasterIndex(q, cols)

\* The 4-connected regions of a set of pixels, in row-major order of their
\* first pixel.
RECURSIVE regionsOf(_, _)
regionsOf(pixels, cols) ==
    IF pixels = {} THEN <<>>
    ELSE LET first == firstPixel(pixels, cols)
             region == grow({first}, {first}, pixels)
         IN  <<region>> \o regionsOf(pixels \ region, cols)

\* ndimage.label (line 130): 0 for the pixels that are not set, and the
\* regions of set pixels numbered from 1.
label(n3) ==
    LET pixels == {p \in Coords(n3.rows, n3.cols) : n3.pix[p]}
        regions == regionsOf(pixels, n3.cols)
    IN  ndarray(n3.rows, n3.cols,
                [p \in Coords(n3.rows, n3.cols) |->
                    IF p \in pixels
                    THEN CHOOSE k \in 1 .. Len(regions) : p \in regions[k]
                    ELSE 0])

\* lines 131-136: the label isolateSprite keeps, or the ValueError np.argmax
\* raises for an array without elements.  np.unique lists the labels in
\* ascending order and np.argmax returns the first maximum.
labelCount(labelArray, l) ==
    Cardinality({p \in Coords(labelArray.rows, labelArray.cols) :
                    labelArray.pix[p] = l})

argmax(labelArray, labels) ==
    CHOOSE l \in labels :
        \A other \in labels :
            \/ labelCount(labelArray, l) > labelCount(labelArray, other)
            \/ /\ labelCount(labelArray, l) = labelCount(labelArray, other)
               /\ l <= other

\* The selection as it would be if the most frequent label were never removed.
spriteAreaNeverDeletes(labelArray, areaToggle) ==
    LET uniqueLabel == {labelArray.pix[p] :
                           p \in Coords(labelArray.rows, labelArray.cols)}
    IN  IF uniqueLabel = {} THEN [err |-> "ValueError", label |-> 0]
        ELSE [err |-> "", label |-> argmax(labelArray, uniqueLabel)]

spriteArea(labelArray, areaToggle) ==
    LET uniqueLabel == {labelArray.pix[p] :
                           p \in Coords(labelArray.rows, labelArray.cols)}
        backgroundIndex == argmax(labelArray, uniqueLabel)
        kept == IF areaToggle THEN uniqueLabel \ {backgroundIndex}
                ELSE uniqueLabel
    IN  IF kept = {} THEN [err |-> "ValueError", label |-> 0]
        ELSE [err |-> "", label |-> argmax(labelArray, kept)]

\* lines 139-146: the frame times the 0/1 mask of the kept label.
maskSprite(curSprite, labelArray, l) ==
    ndarray(curSprite.rows, curSprite.cols,
          [p \in Coords(curSprite.rows, curSprite.cols) |->
              IF labelArray.pix[p] = uint8(l)
              THEN curSprite.pix[p] ELSE <<0, 0, 0>>])

\* One pass of the loop of lines 107-147.
isolateOne(curSprite, background, limit, areaToggle) ==
    LET labelArray == label(denoise(foreground(curSprite, background, limit)))
        l == spriteArea(labelArray, areaToggle)
    IN  IF l.err # ""
        THEN [err |-> l.err, image |-> NoImage]
        ELSE [err |-> "", image |-> maskSprite(curSprite, labelArray, l.label)]

\* lines 95-149.  An exception leaves the caller without a returned value.
isolateSprite ==
    /\ pc = "idle"
    /\ calls < MaxCalls
    /\ params.op = "isolateSprite"
    /\ calls' = calls + 1
    /\ LET spritesIsolated ==
               [x \in 1 .. Len(sprites) |->
                   isolateOne(sprites[x], params.background, params.limit,
                              params.areaToggle)] @@ <<>>
       IN  IF \E x \in 1 .. Len(sprites) : spritesIsolated[x].err # ""
           THEN /\ err' = "ValueError"
                /\ result' = "None"
           ELSE /\ err' = ""
                /\ result' = [x \in 1 .. Len(sprites) |-> spritesIsolated[x].image]
    /\ lastCall' = [op |-> "isolateSprite", arg |-> params]
    /\ UNCHANGED <<frameVars, renderVars, outDir, elementVars, sprites, params,
                   printed, disk>>

\* Frames to isolate: every 1 x 8 strip of grey and black pixels, a frame
\* that steps through the pixel values around the limits, the 10 x 10 white
\* frame with a 2 x 2 black square at (4, 4), and a sequence of two strips.
black == <<0, 0, 0>>
grey == <<128, 128, 128>>
white == <<255, 255, 255>>

StripLen == 7

Strip(blob) ==
    ndarray(1, StripLen,
            [p \in Coords(1, StripLen) |-> IF p[2] \in blob THEN black ELSE grey])

Values == <<0, 10, 11, 117, 118, 128, 138, 139, 244, 245, 255>>

Ramp ==
    ndarray(2, Len(Values),
            [p \in Coords(2, Len(Values)) |->
                IF p[1] = 0
                THEN <<Values[p[2] + 1], Values[p[2] + 1], Values[p[2] + 1]>>
                ELSE <<128, Values[p[2] + 1], 128>>])

Scene ==
    ndarray(10, 10,
            [p \in Coords(10, 10) |->
                IF p[1] \in {4, 5} /\ p[2] \in {4, 5} THEN black ELSE white])

IsolateInputs ==
    {<<Strip(blob)>> : blob \in SUBSET (0 .. StripLen - 1)}
    \cup {<<Ramp>>, <<Scene>>, <<Strip({0}), Strip({0, 6})>>,
          <<Strip({0, 6}), Strip(0 .. StripLen - 1)>>}

Backgrounds == {grey, white, black}

Limits == {0, 10}

IsolateJobs ==
    {[sprites |-> loaded,
      params |-> [op |-> "isolateSprite", background |-> background,
                  limit |-> limit, areaToggle |-> areaToggle]] :
        loaded \in IsolateInputs, background \in Backgrounds, limit \in Limits,
        areaToggle \in BOOLEAN}

NextIsolate == isolateSprite

SpecIsolate == InitWith(IsolateJobs) /\ [][NextIsolate]_vars

\* ------------------------------------------------------------- cleanSprite
Min(a, b) == IF a < b THEN a ELSE b

Max(a, b) == IF a > b THEN a ELSE b

\* The first index and the index past the last of the Python slice
\* [start:stop] of a dimension of n elements (a negative bound counts from
\* the end, bounds beyond the ends are clipped).
sliceBound(bound, n) == IF bound < 0 THEN Max(bound + n, 0) ELSE Min(bound, n)

\* array[rowStart:rowStop, colStart:colStop]
sliceImage(array, rowStart, rowStop, colStart, colStop) ==
    LET r1 == sliceBound(rowStart, array.rows)
        r2 == Max(sliceBound(rowStop, array.rows), r1)
        c1 == sliceBound(colStart, array.cols)
        c2 == Max(sliceBound(colStop, array.cols), c1)
    IN  ndarray(r2 - r1, c2 - c1,
                [p \in Coords(r2 - r1, c2 - c1) |->
                    array.pix[<<r1 + p[1], c1 + p[2]>>]])

RECURSIVE sumChannel(_, _, _)
sumChannel(array, pixels, c) ==
    IF pixels = {} THEN 0
    ELSE LET p == CHOOSE q \in pixels : TRUE
         IN  array.pix[p][c] + sumChannel(array, pixels \ {p}, c)

\* lines 88-91: np.mean over the rows and then over the columns of a block,
\* truncated to an integer; the mean of a block without pixels is nan, and
\* the integer a nan is cast to is not defined.
blockMean(testPixel, nan) ==
    [c \in 1 .. 3 |->
        IF testPixel.rows = 0 \/ testPixel.cols = 0 THEN nan
        ELSE sumChannel(testPixel, Coords(testPixel.rows, testPixel.cols), c)
                \div (testPixel.rows * testPixel.cols)]

\* line 79
cropped(curSprite, right, top, left, bottom) ==
    LET newHeight == curSprite.rows - (top + bottom)
        newWidth == curSprite.cols - (right + left)
    IN  sliceImage(curSprite, top, newHeight - top, left, newWidth - right)

\* One pass of the loop of lines 68-92.
cleanOne(curSprite, pixelRef, spritePixelSize, nan) ==
    LET right == (curSprite.cols - pixelRef[1]) % spritePixelSize
        top == pixelRef[2] % spritePixelSize
        left == pixelRef[1] % spritePixelSize
        bottom == (curSprite.rows - pixelRef[2]) % spritePixelSize
        spriteCropped == cropped(curSprite, right, top, left, bottom)
        newHeight == (curSprite.rows - (top + bottom)) \div spritePixelSize
        newWidth == (curSprite.cols - (right + left)) \div spritePixelSize
    IN  ndarray(newHeight, newWidth,
                [p \in Coords(newHeight, newWidth) |->
                    blockMean(sliceImage(spriteCropped,
                                         spritePixelSize * p[1],
                                         spritePixelSize * (p[1] + 1),
                                         spritePixelSize * p[2],
                                         spritePixelSize * (p[2] + 1)),
                              nan)])

\* lines 59-93
cleanSprite ==
    /\ pc = "idle"
    /\ calls < MaxCalls
    /\ params.op = "cleanSprite"
    /\ calls' = calls + 1
    /\ \E nan \in NanCast :
          result' = [x \in 1 .. Len(sprites) |->
                        cleanOne(sprites[x], params.pixelRef,
                                 params.spritePixelSize, nan)]
    /\ err' = ""
    /\ lastCall' = [op |-> "cleanSprite", arg |-> params]
    /\ UNCHANGED <<frameVars, renderVars, outDir, elementVars, sprites, params,
                   printed, disk>>

\* Frames to clean: one of every height and width up to MaxSide, every pixel
\* of another colour; every reference point inside the frame and the block
\* sizes 1, 2 and 3.
MaxSide == 5

Gradient(h, w) ==
    ndarray(h, w,
            [p \in Coords(h, w) |->
                <<(37 * p[1] + 11 * p[2]) % 256,
                  (101 * p[1] + 29 * p[2] + 7) % 256,
                  255 - ((53 * p[1] + 17 * p[2]) % 256)>>])

BlockSizes == {1, 2, 3}

CleanJobs ==
    {[sprites |-> <<Gradient(hw[1], hw[2])>>,
      params |-> [op |-> "cleanSprite", pixelRef |-> <<pixelRef[2], pixelRef[1]>>,
                  spritePixelSize |-> spritePixelSize]] :
        hw \in (1 .. MaxSide) \X (1 .. MaxSide),
        pixelRef \in Coords(MaxSide, MaxSide),
        spritePixelSize \in BlockSizes}

InFrame(job) ==
    /\ job.params.pixelRef[1] < job.sprites[1].cols
    /\ job.params.pixelRef[2] < job.sprites[1].rows

NextClean == cleanSprite

SpecClean == InitWith({job \in CleanJobs : InFrame(job)}) /\ [][NextClean]_vars

\* ------------------------------------------------- cropSprite, saveSprite
\* lines 29-44
cropSprite ==
    /\ pc = "idle"
    /\ calls < MaxCalls
    /\ params.op = "cropSprite"
    /\ calls' = calls + 1
    /\ IF Len(sprites) > 0
       THEN /\ result' = [x \in 1 .. Len(sprites) |->
                            sliceImage(sprites[x], params.cropY,
                                       params.cropY + params.cropHeight,
                                       params.cropX,
                                       params.cropX + params.cropWidth)]
            /\ printed' = printed
       ELSE /\ result' = "None"
            /\ printed' = Append(printed,
                                 "Error in cropSprite Method: No sprites found")
    /\ err' = ""
    /\ lastCall' = [op |-> "cropSprite", arg |-> params]
    /\ UNCHANGED <<frameVars, renderVars, outDir, elementVars, sprites, params,
                   disk>>

\* saveSprite as it would be if the folder were made before the sequence is
\* looked at.
saveSpriteMakesFolder ==
    /\ pc = "idle"
    /\ calls < MaxCalls
    /\ params.op = "saveSprite"
    /\ calls' = calls + 1
    /\ IF Len(sprites) > 0
       THEN LET folder == params.outputFolderName
                before == IF folder \in DOMAIN disk THEN disk[folder] ELSE <<>>
                names == {fileName(Len(sprites), i) : i \in 0 .. Len(sprites) - 1}
                after == [n \in DOMAIN before \cup names |->
                             IF n \in names
                             THEN sprites[1 + CHOOSE i \in 0 .. Len(sprites) - 1 :
                                                 n = fileName(Len(sprites), i)]
                             ELSE before[n]]
            IN  /\ disk' = [f \in DOMAIN disk \cup {folder} |->
                               IF f = folder THEN after ELSE disk[f]]
                /\ printed' = printed
       ELSE /\ printed' = Append(printed,
                                 "Error in saveSprite Method: No sprites found")
            /\ disk' = [f \in DOMAIN disk \cup {params.outputFolderName} |->
                           IF f \in DOMAIN disk THEN disk[f] ELSE <<>>]
    /\ result' = "None"
    /\ err' = ""
    /\ lastCall' = [op |-> "saveSprite", arg |-> params]
    /\ UNCHANGED <<frameVars, renderVars, outDir, elementVars, sprites, params>>

\* lines 151-166: the files of the folder after the call, the folder made if
\* it was not there.
saveSprite ==
    /\ pc = "idle"
    /\ calls < MaxCalls
    /\ params.op = "saveSprite"
    /\ calls' = calls + 1
    /\ IF Len(sprites) > 0
       THEN LET folder == params.outputFolderName
                before == IF folder \in DOMAIN disk THEN disk[folder] ELSE <<>>
                names == {fileName(Len(sprites), i) : i \in 0 .. Len(sprites) - 1}
                after == [n \in DOMAIN before \cup names |->
                             IF n \in names
                             THEN sprites[1 + CHOOSE i \in 0 .. Len(sprites) - 1 :
                                                 n = fileName(Len(sprites), i)]
                             ELSE before[n]]
            IN  /\ disk' = [f \in DOMAIN disk \cup {folder} |->
                               IF f = folder THEN after ELSE disk[f]]
                /\ printed' = printed
       ELSE /\ printed' = Append(printed,
                                 "Error in saveSprite Method: No sprites found")
            /\ disk' = disk
    /\ result' = "None"
    /\ err' = ""
    /\ lastCall' = [op |-> "saveSprite", arg |-> params]
    /\ UNCHANGED <<frameVars, renderVars, outDir, elementVars, sprites, params>>

\* Sequences to crop and to save: none, one, two and three frames; crop
\* rectangles inside the frames, over their edges and beyond them.
CropInputs ==
    {<<>>, <<Gradient(3, 4)>>, <<Gradient(3, 4), Gradient(2, 2)>>,
     <<Gradient(2, 3), Gradient(3, 4), Gradient(1, 1)>>}

CropJobs ==
    {[sprites |-> loaded,
      params |-> [op |-> "cropSprite", cropX |-> cropX, cropY |-> cropY,
                  cropWidth |-> cropWidth, cropHeight |-> cropHeight]] :
        loaded \in CropInputs, cropX \in 0 .. 4, cropY \in 0 .. 3,
        cropWidth \in 0 .. 4, cropHeight \in 0 .. 3}

SaveJobs ==
    {[sprites |-> loaded,
      params |-> [op |-> "saveSprite", outputFolderName |-> "out",
                  outputFilePrefix |-> "sprite_"]] :
        loaded \in CropInputs}

NextCrop ==
    \/ cropSprite
    \/ saveSprite

SpecCrop == InitWith(CropJobs \cup SaveJobs) /\ [][NextCrop]_vars

\* ------------------------------------------------------------ FrameElement
\* The image sequences of a FrameElement's events (FrameElement.eventDict),
\* as indices into the sprite images: one event without images, and events
\* of one, two and three images.
eventNames == {"none", "exist", "sitting", "standing"}

imgList(eventName) ==
    CASE eventName = "none" -> <<>>
      [] eventName = "exist" -> <<3>>
      [] eventName = "sitting" -> <<1, 2>>
      [] OTHER -> <<1, 2, 3>>

StartIndexes == {0, 1, 2}

\* setCurSprite as it would be if the cursor started over at the first image.
setCurSpriteRestarts(eventName, startIndex) ==
    /\ pc = "idle"
    /\ calls < MaxCalls
    /\ calls' = calls + 1
    /\ LET moved == curSpriteIndex + startIndex
           new == IF moved < Len(imgList(eventName)) - 1 THEN moved + 1 ELSE 0
       IN  /\ curSpriteIndex' = new
           /\ played' = Append(played, <<eventName, startIndex, new>>)
    /\ lastCall' = [op |-> "setCurSprite", arg |-> <<eventName, startIndex>>]
    /\ err' = ""
    /\ UNCHANGED <<frameVars, renderVars, outDir, extractorVars>>

\* setCurSprite as it would be if it looked at the image the cursor lands on.
setCurSpriteChecked(eventName, startIndex) ==
    /\ pc = "idle"
    /\ calls < MaxCalls
    /\ calls' = calls + 1
    /\ LET moved == curSpriteIndex + startIndex
           new == IF moved < Len(imgList(eventName)) - 1 THEN moved + 1 ELSE -1
       IN  IF Len(imgList(eventName)) = 0
           THEN /\ err' = "IndexError"
                /\ UNCHANGED <<curSpriteIndex, played>>
           ELSE /\ curSpriteIndex' = new
                /\ played' = Append(played, <<eventName, startIndex, new>>)
                /\ err' = ""
    /\ lastCall' = [op |-> "setCurSprite", arg |-> <<eventName, startIndex>>]
    /\ UNCHANGED <<frameVars, renderVars, outDir, extractorVars>>

\* lines 409-414; the returned value is the last entry of played.
setCurSprite(eventName, startIndex) ==
    /\ pc = "idle"
    /\ calls < MaxCalls
    /\ calls' = calls + 1
    /\ LET moved == curSpriteIndex + startIndex
           new == IF moved < Len(imgList(eventName)) - 1 THEN moved + 1 ELSE -1
       IN  /\ curSpriteIndex' = new
           /\ played' = Append(played, <<eventName, startIndex, new>>)
    /\ lastCall' = [op |-> "setCurSprite", arg |-> <<eventName, startIndex>>]
    /\ err' = ""
    /\ UNCHANGED <<frameVars, renderVars, outDir, extractorVars>>

NextCursor ==
    \E eventName \in eventNames, startIndex \in StartIndexes :
        setCurSprite(eventName, startIndex)

SpecCursor == Init /\ [][NextCursor]_vars

\* ------------------------------------------------------------------ claims
Committed(i) == heap[frameList[i]]

RenderReturned == pc = "idle" /\ lastCall.op = "render"

\* C1: the k entries committed by one save are independent values, so that
\* all k copies of a held pose are rendered alike: two neighbouring output
\* frames that stem from the same save hold the same picture, and render
\* reaches each of them.
C1_CopiesRenderedAlike ==
    /\ (pc = "for" /\ frameIndex >= 2 /\ frameList[frameIndex] = frameList[frameIndex - 1])
          => outDir[written[frameIndex]] = outDir[written[frameIndex - 1]]
    /\ (RenderReturned /\ err # "" /\ frameIndex >= 1)
          => frameList[frameIndex + 1] # frameList[frameIndex]

\* A state in which the claim C1 is about has been reached: render has
\* rendered two copies made by one save(2) of a pose with a turned sprite.
C1_Witness ==
    /\ pc = "for" /\ frameIndex >= 2
    /\ frameList[frameIndex] = frameList[frameIndex - 1]
    /\ \E x \in 1 .. Len(Committed(frameIndex).rotation) :
          Committed(frameIndex).rotation[x] # 0

\* C2: save(k) makes the committed list exactly k entries longer, every new
\* entry holding the pending instructions in their add order, leaves the
\* earlier entries as they were and leaves the pending list empty; add
\* appends its arguments to the pending lists; and the number of committed
\* frames is the sum of the repeatFrames arguments.
C2_SaveStep ==
    (calls' # calls /\ lastCall'.op = "save") =>
        LET k == lastCall'.arg
            n == Len(frameList)
        IN  /\ Len(frameList') = n + k
            /\ \A i \in 1 .. n :
                  frameList'[i] = frameList[i] /\ heap'[frameList'[i]] = Committed(i)
            /\ \A i \in n + 1 .. n + k : heap'[frameList'[i]] = heap[instr]
            /\ heap'[instr'] = emptyInstr

C2_AddStep ==
    (calls' # calls /\ lastCall'.op = "add") =>
        LET a == lastCall'.arg
        IN  /\ instr' = instr
            /\ frameList' = frameList
            /\ \A key \in DOMAIN emptyInstr :
                  heap'[instr][key] = Append(heap[instr][key], a[key])
            /\ \A i \in 1 .. Len(frameList) : heap'[frameList[i]] = Committed(i)

C2_SaveAppends ==
    /\ [](Len(frameList) = repeatSum)
    /\ [][C2_SaveStep /\ C2_AddStep]_vars

\* A second save, of two copies of a pending frame with instructions.
C2_Witness ==
    /\ pc = "idle" /\ lastCall = [op |-> "save", arg |-> 2]
    /\ Len(frameList) = 3
    /\ Len(Committed(3).image) >= 1
    /\ Len(Committed(1).image) >= 1
    /\ heap[instr] = emptyInstr

\* The number of decimal digits of n, and the name the claim gives file i
\* of n: the digits of i, most significant first, in that many places.
DigitCount(n) == CHOOSE w \in 1 .. 4 : n < 10 ^ w /\ (w = 1 \/ n >= 10 ^ (w - 1))

ExpectedName(n, i) ==
    [j \in 1 .. DigitCount(n) |-> (i \div (10 ^ (DigitCount(n) - j))) % 10]

\* C3: a successful render of n committed frames writes exactly n files, one
\* per committed frame in commit order, with the indices 0 .. n-1 (no gaps, no
\* duplicates), each zero-padded to the number of decimal digits of n.
C3_FileNames ==
    /\ (pc # "idle" \/ RenderReturned) =>
          /\ Len(written) = frameIndex
          /\ \A i \in 1 .. Len(written) :
                /\ written[i] = ExpectedName(frameCount, i - 1)
                /\ written[i] \in DOMAIN outDir
          /\ Cardinality({written[i] : i \in 1 .. Len(written)}) = Len(written)
    /\ (RenderReturned /\ err = "") =>
          /\ frameCount = Len(frameList)
          /\ Len(written) = frameCount

\* A render of a hundred and more frames has returned.
C3_Witness ==
    /\ RenderReturned /\ err = ""
    /\ Len(written) > 100
    /\ written[1] = <<0, 0, 0>>
    /\ written[Len(written)] = <<1, 0, 0>>

FirstFrameEmpty == Len(frameList) >= 1 /\ Committed(1).image = <<>>

\* C4 as claimed: render on a committed frame list whose first frame has no
\* draw instructions fails with an EmptyFrameError and writes no file.
C4_EmptyFrameError ==
    (RenderReturned /\ FirstFrameEmpty) => (err = "EmptyFrameError" /\ written = <<>>)

\* C4 as amended: render on a committed frame list whose first frame has no
\* draw instructions fails with an IndexError (the first sprite of an empty
\* list is asked for its shape) and writes no file.
C4_IndexError ==
    (RenderReturned /\ FirstFrameEmpty) => (err = "IndexError" /\ written = <<>>)

\* render has failed on an empty first frame that a frame with a sprite follows.
C4_Witness ==
    /\ RenderReturned /\ FirstFrameEmpty /\ err # ""
    /\ Len(frameList) >= 2 /\ Committed(2).image # <<>>

\* The height and width of sprite x of instruction dictionary d after flip,
\* scale and a rotation by a multiple of 90 degrees.
PostRows(d, x) ==
    d.scale[x] * (IF (d.rotation[x] \div 90) % 2 = 1 THEN eventDict[d.image[x]].cols
                                                      ELSE eventDict[d.image[x]].rows)
PostCols(d, x) ==
    d.scale[x] * (IF (d.rotation[x] \div 90) % 2 = 1 THEN eventDict[d.image[x]].rows
                                                      ELSE eventDict[d.image[x]].cols)

Composing == pc \in {"layer", "write"}

\* C5 as claimed: within one render call every output frame has the canvas
\* height and width of the transformed bottom-layer sprite of the first
\* committed frame.
C5_OneCanvasSize ==
    /\ Composing =>
          /\ frame.rows = PostRows(Committed(1), 1)
          /\ frame.cols = PostCols(Committed(1), 1)
    /\ (pc # "idle" \/ RenderReturned) =>
          \A i \in 1 .. Len(written) :
             /\ outDir[written[i]].rows = outDir[written[1]].rows
             /\ outDir[written[i]].cols = outDir[written[1]].cols

\* C5 as amended: every output frame has the canvas height and width of the
\* transformed bottom-layer sprite of its own frame, so that the frames of a
\* render call have one size where these sprites have one size.
C5_CanvasOfOwnBottomSprite ==
    /\ Composing =>
          /\ frame.rows = PostRows(heap[curFrame], 1)
          /\ frame.cols = PostCols(heap[curFrame], 1)
    /\ (pc # "idle" \/ RenderReturned) =>
          \A i \in 1 .. Len(written) :
             /\ outDir[written[i]].rows = PostRows(Committed(i), 1)
             /\ outDir[written[i]].cols = PostCols(Committed(i), 1)

\* A second frame is being composed on a canvas of another size than the
\* first frame's, its bottom-layer sprite being a turned 1 x 2 sprite.
C5_Witness ==
    /\ pc = "write" /\ frameIndex >= 1
    /\ heap[curFrame].rotation[1] = 90
    /\ <<frame.rows, frame.cols>> # <<outDir[written[1]].rows, outDir[written[1]].cols>>

\* The sprite image mirrored as the claim says: left-right iff h, then
\* top-bottom iff v.
Mirrored(sprite, h, v) ==
    Image(sprite.rows, sprite.cols,
          [p \in Coords(sprite.rows, sprite.cols) |->
              sprite.pix[<<IF v THEN sprite.rows - 1 - p[1] ELSE p[1],
                           IF h THEN sprite.cols - 1 - p[2] ELSE p[2]>>]])

\* C6: the flip step returns every sprite mirrored left-right iff the first
\* flag is set and then top-bottom iff the second is set; with both flags set
\* pixel (r, c) moves to (H-1-r, W-1-c), with none the sprite is unchanged.
C6_FlipMirrors ==
    pc = "scale" =>
        \A x \in 1 .. Len(frameElement) :
            frameElement[x] = Mirrored(eventDict[heap[curFrame].image[x]],
                                       heap[curFrame].flip[x][1],
                                       heap[curFrame].flip[x][2])

\* The layering loop is about to layer sprite layerI + 1.
LayerPending == pc = "layer" /\ layerI < Len(frameElement)
CurSprite == frameElement[layerI + 1]
CurPos == heap[curFrame].position[layerI + 1]

\* Canvas pixel p lies under the sprite placed at pos, and the sprite pixel
\* that lies over it.
Covers(sprite, pos, p) ==
    /\ pos[2] <= p[1] /\ p[1] < pos[2] + sprite.rows
    /\ pos[1] <= p[2] /\ p[2] < pos[1] + sprite.cols
Over(sprite, pos, p) == sprite.pix[<<p[1] - pos[2], p[2] - pos[1]>>]

NoOverlap(sprite, frm, pos) ==
    \/ pos[1] >= frm.cols
    \/ pos[2] >= frm.rows
    \/ pos[1] + sprite.cols <= 0
    \/ pos[2] + sprite.rows <= 0

\* C7: layering a sprite whose placement rectangle has no overlap with the
\* canvas completes without error and leaves every canvas pixel unchanged.
C7_OffCanvasNoEffect ==
    [][(LayerPending /\ NoOverlap(CurSprite, frame, CurPos))
          => (err' = "" /\ pc' = "layer" /\ frame' = frame)]_vars

Colour(px) == <<px[1], px[2], px[3]>>

\* C8: for every sprite size, canvas size and position the destination and
\* the source rectangle of the layering step are the intersection of the
\* placed sprite with the canvas: equal in height and width, the one inside
\* the canvas, the other inside the sprite, source pixel (r, c) blended onto
\* canvas pixel (y + r, x + c), the canvas unchanged elsewhere.
C8_Rectangles ==
    LayerPending =>
        LET c == cropRect(CurSprite, frame, CurPos)
        IN  /\ c.cropY2 - c.cropY1 = c.cropSpriteY2 - c.cropSpriteY1
            /\ c.cropX2 - c.cropX1 = c.cropSpriteX2 - c.cropSpriteX1
            /\ 0 <= c.cropY1 /\ c.cropY1 <= c.cropY2 /\ c.cropY2 <= frame.rows
            /\ 0 <= c.cropX1 /\ c.cropX1 <= c.cropX2 /\ c.cropX2 <= frame.cols
            /\ 0 <= c.cropSpriteY1 /\ c.cropSpriteY1 <= c.cropSpriteY2
            /\ c.cropSpriteY2 <= CurSprite.rows
            /\ 0 <= c.cropSpriteX1 /\ c.cropSpriteX1 <= c.cropSpriteX2
            /\ c.cropSpriteX2 <= CurSprite.cols
            /\ \A p \in Coords(frame.rows, frame.cols) :
                  Covers(CurSprite, CurPos, p) <=>
                     /\ c.cropY1 <= p[1] /\ p[1] < c.cropY2
                     /\ c.cropX1 <= p[2] /\ p[2] < c.cropX2
                     /\ c.cropSpriteY1 = c.cropY1 - CurPos[2]
                     /\ c.cropSpriteX1 = c.cropX1 - CurPos[1]

C8_Blend ==
    LayerPending =>
        /\ err' = "" /\ pc' = "layer"
        /\ frame'.rows = frame.rows /\ frame'.cols = frame.cols
        /\ \A p \in Coords(frame.rows, frame.cols) :
              IF Covers(CurSprite, CurPos, p)
              THEN \E nan \in NanCast :
                     frame'.pix[p] = compPixel(Over(CurSprite, CurPos, p), frame.pix[p], nan)
              ELSE frame'.pix[p] = frame.pix[p]

C8_CropIsIntersection == [](C8_Rectangles) /\ [][C8_Blend]_vars

\* C9: in the overlap region of a layering step a source pixel with alpha 255
\* sets the canvas pixel's colour to the source colour and a source pixel with
\* alpha 0 leaves it as it was; and with all sprites of a frame opaque the
\* colour of a canvas pixel is that of the last-added sprite covering it
\* (white where there is none).
C9_LayerStep ==
    (LayerPending /\ pc' = "layer") =>
        \A p \in Coords(frame.rows, frame.cols) :
            Covers(CurSprite, CurPos, p) =>
               LET sp == Over(CurSprite, CurPos, p)
               IN  /\ sp[4] = 255 => Colour(frame'.pix[p]) = Colour(sp)
                   /\ sp[4] = 0 => Colour(frame'.pix[p]) = Colour(frame.pix[p])

Opaque(sprite) == \A q \in DOMAIN sprite.pix : sprite.pix[q][4] = 255

\* The sprites of the frame being composed that cover canvas pixel p.
Covering(p) ==
    {x \in 1 .. Len(frameElement) :
        Covers(frameElement[x], heap[curFrame].position[x], p)}

Top(p) == CHOOSE x \in Covering(p) : \A y \in Covering(p) : y <= x

C9_PaintOrder ==
    (pc = "write" /\ \A x \in 1 .. Len(frameElement) : Opaque(frameElement[x])) =>
        \A p \in Coords(frame.rows, frame.cols) :
            Colour(frame.pix[p]) =
               IF Covering(p) = {} THEN <<255, 255, 255>>
               ELSE Colour(Over(frameElement[Top(p)], heap[curFrame].position[Top(p)], p))

C9_OpaqueReplaces == [](C9_PaintOrder) /\ [][C9_LayerStep]_vars

\* A frame has been composed whose top sprite covers one canvas pixel with a
\* pixel of alpha 0, which still shows the bottom sprite, and another with an
\* opaque pixel of a colour other than the bottom sprite's, which shows it.
C9_Witness ==
    /\ pc = "write" /\ Len(frameElement) = 2
    /\ \E p, q \in Coords(frame.rows, frame.cols) :
          /\ Covering(p) = {1, 2} /\ Covering(q) = {1, 2}
          /\ Over(frameElement[2], heap[curFrame].position[2], p)[4] = 0
          /\ Colour(frame.pix[p]) = Colour(Over(frameElement[1], heap[curFrame].position[1], p))
          /\ Colour(frame.pix[p]) # Colour(Over(frameElement[2], heap[curFrame].position[2], p))
          /\ Over(frameElement[2], heap[curFrame].position[2], q)[4] = 255
          /\ Over(frameElement[1], heap[curFrame].position[1], q)[4] = 255
          /\ Colour(frame.pix[q]) = Colour(Over(frameElement[2], heap[curFrame].position[2], q))
          /\ Colour(frame.pix[q]) # Colour(Over(frameElement[1], heap[curFrame].position[1], q))

\* A frame of two opaque sprites has been composed, the upper one covering a
\* pixel of the lower one.
C9_WitnessOpaque ==
    /\ pc = "write" /\ Len(frameElement) >= 2
    /\ \A x \in 1 .. Len(frameElement) : Opaque(frameElement[x])
    /\ \E p \in Coords(frame.rows, frame.cols) : Cardinality(Covering(p)) >= 2

\* round(255 * alpha) for alpha = a4 / 4, halves rounded up.
Round255(a4) == CHOOSE v \in 0 .. 255 : -2 < 4 * v - 255 * a4 /\ 4 * v - 255 * a4 <= 2

\* C10: setAlpha(c) sets the chroma-key value of the engine to c (0 before
\* any call), and in a render exactly the sprite pixels whose B, G and R all
\* equal the key get alpha 0, every other pixel round(255 * alpha).
C10_ChromaKey ==
    /\ lastCall.op = "init" => alphaChannel = 0
    /\ lastCall.op = "setAlpha" => (err = "" /\ alphaChannel = lastCall.arg)
    /\ pc = "canvas" =>
          \A x \in 1 .. Len(frameElement) :
             \A p \in DOMAIN frameElement[x].pix :
                LET px == frameElement[x].pix[p]
                IN  px[4] = IF px[1] = alphaChannel /\ px[2] = alphaChannel
                                /\ px[3] = alphaChannel
                            THEN 0 ELSE Round255(heap[curFrame].alpha[x])

\* The ranges add documents for alpha (0 to 1, here in quarters) and scale.
InRange(a) == a.alpha \in 0 .. 4 /\ a.scale >= 1

AddCall == calls' # calls /\ lastCall'.op = "add"

\* C19: add with an alpha outside of [0, 1] or a scale below 1 is rejected
\* with an InvalidArgument error and leaves the pending instructions as they
\* were, so no committed frame holds an instruction with such an alpha or
\* scale.
C19_ArgsChecked ==
    /\ [][(AddCall /\ ~InRange(lastCall'.arg))
             => (err' = "InvalidArgument" /\ heap' = heap)]_vars
    /\ [](\A i \in 1 .. Len(frameList) :
             \A x \in 1 .. Len(Committed(i).image) :
                 /\ Committed(i).alpha[x] \in 0 .. 4
                 /\ Committed(i).scale[x] >= 1)

\* The canvas of the current frame with its first k sprites layered.
RECURSIVE Composite(_)
Composite(k) ==
    IF k = 0 THEN whiteFrame(frameElement[1])
    ELSE layerSprite(frameElement[k], Composite(k - 1),
                     heap[curFrame].position[k], 0).frame

C20_WriteStep ==
    Len(written') > Len(written) =>
        /\ pc = "write"
        /\ layerI = Len(frameElement)
        /\ written' = Append(written, fileName(frameCount, frameIndex))
        /\ outDir'[fileName(frameCount, frameIndex)]
             = dropAlpha(Composite(Len(frameElement)))

\* C20: when render fails in committed frame k, the call has written exactly
\* the files of the frames 0 .. k-1, each with all its sprites composited,
\* and none for frame k or a later frame; a file is written only after all
\* sprites of its frame are composited.
C20_WholeFrames ==
    /\ [][C20_WriteStep]_vars
    /\ []((RenderReturned /\ err # "") =>
            /\ frameIndex < frameCount
            /\ Len(written) = frameIndex
            /\ \A k \in 0 .. frameCount - 1 :
                  (k < frameIndex => written[k + 1] = fileName(frameCount, k))
                  /\ (k >= frameIndex =>
                        \A i \in 1 .. Len(written) :
                            written[i] # fileName(frameCount, k)))

\* render failed while layering the second frame, the first is written.
C20_Witness ==
    /\ RenderReturned
    /\ err = "ValueError"
    /\ frameIndex = 1
    /\ frameCount >= 2
    /\ Len(written) = 1
    /\ written[1] \in DOMAIN outDir

\* The canvas pixels under the sprite that is layered next.
Blended == {p \in Coords(frame.rows, frame.cols) : Covers(CurSprite, CurPos, p)}

\* The layering of the next sprite when a NaN colour is cast to nan.
LayeredWith(nan) == layerSprite(CurSprite, frame, CurPos, nan)

\* C21: during render every canvas pixel has alpha 255 before and after every
\* layering step, whatever the alphas of the sprites layered so far; so the
\* composite alpha the colour is divided by is never 0 for a pixel that is
\* blended, and no colour is the cast of a NaN: the outcome of a layering
\* step does not depend on what that cast gives.
C21_CanvasOpaque ==
    /\ Composing =>
          \A p \in Coords(frame.rows, frame.cols) : frame.pix[p][4] = 255
    /\ LayerPending =>
          /\ \A p \in Blended :
                newAlpha(Over(CurSprite, CurPos, p)[4], frame.pix[p][4]) > 0
          /\ \A nan \in NanCast : LayeredWith(nan) = LayeredWith(0)

\* A transparent sprite pixel (alpha 0, where the source contributes nothing
\* to the divisor) and a translucent one have been layered over the canvas,
\* and a further sprite is about to be blended over the same pixel.
C21_Witness ==
    /\ LayerPending
    /\ layerI = 2
    /\ \E p \in Blended :
          /\ Covering(p) = {1, 2, 3}
          /\ Over(frameElement[2], heap[curFrame].position[2], p)[4] \in 0 .. 254
          /\ Over(CurSprite, CurPos, p)[4] \in 1 .. 254
    /\ \E q \in Coords(frame.rows, frame.cols) :
          /\ 2 \in Covering(q)
          /\ Over(frameElement[2], heap[curFrame].position[2], q)[4] = 0

\* ------------------------------------------------ claims on FrameElement
LastPlayed == played[Len(played)]

CursorCall == played' # played

sequenceLen(eventName) == Len(imgList(eventName))

\* C11: for an event of N >= 1 images, whatever the cursor s and the start
\* index are, setCurSprite sets the cursor to s + startIndex + 1 if
\* s + startIndex < N - 1 and to -1 otherwise, returns the new cursor, and
\* the cursor lies in -1 .. N - 1 after the call.
C11_Step ==
    CursorCall =>
        LET eventName == lastCall'.arg[1]
            startIndex == lastCall'.arg[2]
            N == sequenceLen(eventName)
            s == curSpriteIndex
        IN  N >= 1 =>
              /\ curSpriteIndex' = IF s + startIndex < N - 1
                                   THEN s + startIndex + 1 ELSE -1
              /\ LastPlayed'[3] = curSpriteIndex'
              /\ curSpriteIndex' \in -1 .. N - 1

C11_CursorAdvance == [][C11_Step]_vars

\* A call with start index 1 on the three image event that found the cursor
\* on its second image and wrapped.
C11_Witness ==
    /\ Len(played) >= 2
    /\ LastPlayed = <<"standing", 1, -1>>
    /\ played[Len(played) - 1][1] = "standing"
    /\ played[Len(played) - 1][3] = 1

\* C12: on a fresh FrameElement, repeated calls setCurSprite(event, 0) on an
\* event of N >= 1 images return 0, 1, ..., N - 1 and then 0 again: the k-th
\* call returns (k - 1) mod N.
C12_LoopsInOrder ==
    \A eventName \in eventNames :
        (/\ sequenceLen(eventName) >= 1
         /\ \A k \in 1 .. Len(played) :
               played[k][1] = eventName /\ played[k][2] = 0)
        => \A k \in 1 .. Len(played) :
               played[k][3] = (k - 1) % sequenceLen(eventName)

\* C13: setCurSprite on an event without images fails with an IndexError
\* instead of returning a cursor value, and leaves the cursor unchanged.
C13_EmptyCall ==
    /\ calls' # calls
    /\ lastCall'.op = "setCurSprite"
    /\ sequenceLen(lastCall'.arg[1]) = 0

C13_EmptyFails ==
    [][C13_EmptyCall =>
         /\ err' = "IndexError"
         /\ curSpriteIndex' = curSpriteIndex
         /\ played' = played]_vars

\* C13 as amended: setCurSprite on an event without images does not fail; it
\* sets the cursor to -1 and returns -1, whatever the cursor and the start
\* index were.
C13_EmptyResets ==
    [][C13_EmptyCall =>
         /\ err' = ""
         /\ curSpriteIndex' = -1
         /\ Len(played') = Len(played) + 1
         /\ LastPlayed'[3] = -1]_vars

\* A call on the event without images that found the cursor on the last
\* image of the three image event.
C13_Witness ==
    /\ Len(played) >= 2
    /\ LastPlayed[1] = "none"
    /\ LastPlayed[3] = -1
    /\ played[Len(played) - 1][3] = 2
    /\ curSpriteIndex = -1
    /\ err = ""

\* --------------------------------------------------- claims on Extractor
Isolated == lastCall.op = "isolateSprite"

\* The labelled mask isolateSprite computes for frame x of the last call.
LabelArray(x) ==
    label(denoise(foreground(sprites[x], lastCall.arg.background,
                             lastCall.arg.limit)))

Labels(labelArray) ==
    {labelArray.pix[p] : p \in Coords(labelArray.rows, labelArray.cols)}

\* Frame x of the result is frame x of the input inside label l and zero
\* outside of it.
KeepsLabel(x, labelArray, l) ==
    \A p \in Coords(sprites[x].rows, sprites[x].cols) :
        result[x].pix[p] = IF labelArray.pix[p] = l THEN sprites[x].pix[p]
                           ELSE <<0, 0, 0>>

\* C14: for an 8-bit background value b and a tolerance t >= 0 a pixel is
\* foreground iff one of its channels v has v < b - t or v > b + t, the sums
\* taken in unbounded integers; a pixel equal to the background 255 (or 0)
\* is not foreground with t = 10.
C14_Foreground ==
    Isolated =>
        \A x \in 1 .. Len(sprites) :
            \A p \in Coords(sprites[x].rows, sprites[x].cols) :
                foreground(sprites[x], lastCall.arg.background,
                           lastCall.arg.limit).pix[p]
                <=> \E c \in 1 .. 3 :
                       \/ sprites[x].pix[p][c]
                            < lastCall.arg.background[c] - lastCall.arg.limit
                       \/ sprites[x].pix[p][c]
                            > lastCall.arg.background[c] + lastCall.arg.limit

\* C15: with areaToggle = False isolateSprite keeps the largest connected
\* region of foreground pixels of the denoised mask, never the pixels that
\* are not foreground (label 0): every frame comes back equal to the input
\* inside that region and zero outside of it.
C15_LargestRegion ==
    (Isolated /\ ~lastCall.arg.areaToggle) =>
        \A x \in 1 .. Len(sprites) :
            LET labelArray == LabelArray(x)
                regions == Labels(labelArray) \ {0}
            IN  regions # {} =>
                  /\ err = ""
                  /\ \E l \in regions :
                        /\ \A other \in regions :
                              labelCount(labelArray, l)
                                >= labelCount(labelArray, other)
                        /\ KeepsLabel(x, labelArray, l)

SingleLabel(x) == Cardinality(Labels(LabelArray(x))) = 1

\* Frame x of the result keeps a label with the second-largest pixel count.
KeepsSecondLargest(x) ==
    LET labelArray == LabelArray(x)
    IN  \E largest \in Labels(labelArray), l \in Labels(labelArray) :
            /\ l # largest
            /\ \A other \in Labels(labelArray) :
                  labelCount(labelArray, largest) >= labelCount(labelArray, other)
            /\ \A other \in Labels(labelArray) \ {largest} :
                  labelCount(labelArray, l) >= labelCount(labelArray, other)
            /\ KeepsLabel(x, labelArray, l)

C16_Toggled(error) ==
    (Isolated /\ lastCall.arg.areaToggle) =>
        IF \E x \in 1 .. Len(sprites) : SingleLabel(x)
        THEN err = error /\ result = "None"
        ELSE err = "" /\ \A x \in 1 .. Len(sprites) : KeepsSecondLargest(x)

\* C16: with areaToggle = True, a frame whose labelled mask has only one
\* distinct label makes isolateSprite fail with a NoRegionFoundError and
\* return nothing; with two or more labels in every frame it does not fail
\* and keeps the label with the second-largest pixel count.
C16_NoRegionFound == C16_Toggled("NoRegionFoundError")

\* C16 as amended: the failure is the ValueError np.argmax raises for the
\* emptied array of label counts.
C16_ArgmaxFails == C16_Toggled("ValueError")

\* The call on the two strips of which the second is black throughout, with
\* the grey background: its second frame has the one label 1.
C16_Witness ==
    /\ Isolated
    /\ lastCall.arg.areaToggle
    /\ lastCall.arg.background = grey
    /\ Len(sprites) = 2
    /\ ~SingleLabel(1)
    /\ SingleLabel(2)
    /\ err = "ValueError"

\* C17: cleanSprite trims left = px mod s, right = (W - px) mod s,
\* top = py mod s and bottom = (H - py) mod s rows and columns of an H x W
\* frame and returns a frame of ((H - top - bottom) / s) x
\* ((W - left - right) / s) pixels whose pixel (i, j) is, per channel, the
\* truncated mean of the complete s x s block with its top left corner at
\* row top + i*s, column left + j*s; also when the remainders are not zero.
C17_BlockMeans ==
    lastCall.op = "cleanSprite" =>
        \A x \in 1 .. Len(sprites) :
            LET px == lastCall.arg.pixelRef[1]
                py == lastCall.arg.pixelRef[2]
                size == lastCall.arg.spritePixelSize
                H == sprites[x].rows
                W == sprites[x].cols
                left == px % size
                right == (W - px) % size
                top == py % size
                bottom == (H - py) % size
                block(i, j) == {<<top + i * size + a, left + j * size + b>> :
                                   a \in 0 .. size - 1, b \in 0 .. size - 1}
            IN  /\ result[x].rows = (H - top - bottom) \div size
                /\ result[x].cols = (W - left - right) \div size
                /\ \A p \in Coords(result[x].rows, result[x].cols) :
                      \A c \in 1 .. 3 :
                          result[x].pix[p][c]
                            = sumChannel(sprites[x], block(p[1], p[2]), c)
                                \div (size * size)

EmptyCall == lastCall.op \in {"cropSprite", "saveSprite"} /\ Len(sprites) = 0

\* cropSprite returned as many frames as it was given, in their order, each
\* the rectangle of cropHeight rows from row cropY and cropWidth columns from
\* column cropX of its input, as far as the input reaches.
CropsRectangle ==
    (lastCall.op = "cropSprite" /\ Len(sprites) > 0) =>
        /\ err = ""
        /\ Len(result) = Len(sprites)
        /\ \A x \in 1 .. Len(sprites) :
              LET y1 == lastCall.arg.cropY
                  x1 == lastCall.arg.cropX
                  y2 == Min(y1 + lastCall.arg.cropHeight, sprites[x].rows)
                  x2 == Min(x1 + lastCall.arg.cropWidth, sprites[x].cols)
              IN  /\ result[x].rows = Max(y2 - y1, 0)
                  /\ result[x].cols = Max(x2 - x1, 0)
                  /\ \A p \in Coords(result[x].rows, result[x].cols) :
                        result[x].pix[p] = sprites[x].pix[<<y1 + p[1], x1 + p[2]>>]

\* C18: cropSprite and saveSprite called with an empty sequence fail with an
\* EmptyInputError surfaced to the caller: nothing is returned, saveSprite
\* makes no folder and writes no file; cropSprite called with n >= 1 frames
\* returns n frames in the same order, each the rectangle
\* [y:y+height, x:x+width] of its input.
C18_EmptyInputError ==
    /\ EmptyCall => (err = "EmptyInputError" /\ result = "None" /\ disk = <<>>)
    /\ CropsRectangle

\* C18 as amended: with an empty sequence the two methods print an error
\* line and return None without raising anything; saveSprite makes no folder
\* and writes no file.  The rest as in C18.
C18_PrintsAndReturns ==
    /\ EmptyCall =>
          /\ err = ""
          /\ result = "None"
          /\ disk = <<>>
          /\ Len(printed) = calls
          /\ printed[Len(printed)]
               = IF lastCall.op = "cropSprite"
                 THEN "Error in cropSprite Method: No sprites found"
                 ELSE "Error in saveSprite Method: No sprites found"
    /\ ~EmptyCall => printed = <<>>
    /\ CropsRectangle

\* Two calls of cropSprite with an empty sequence.
C18_Witness ==
    /\ EmptyCall
    /\ lastCall.op = "cropSprite"
    /\ calls = 2
    /\ Len(printed) = 2

====
